---------------------------- MODULE Spec2Model ----------------------------
(***************************************************************************)
(* openredact-clinical: entity resolution, allow-list / block-list         *)
(* handling, text and PDF anonymization requests, and date shifting.       *)
(*                                                                         *)
(* Strings are sequences of one-character strings, so that slicing,        *)
(* substring search, splitting and formatting are computed, not assumed.   *)
(* An entity is a record [text, start, end, label, source] as built in     *)
(* backend/app/nlp.py; offsets are 0-based and half-open as in Python.     *)
(***************************************************************************)
EXTENDS Integers, Sequences, FiniteSets, TLC

VARIABLES
    phase,          \* which operation produced the current state
    candidates,     \* resolver: the list handed to _deduplicate_entities
    deduplicated,   \* resolver: the list it returned
    blacklist,      \* BlacklistManager.blacklist (set of terms)
    whitelist,      \* content of the whitelist store (read as a set)
    text,           \* request text (or text extracted from the PDF)
    ner,            \* entities reported by the NER models and patterns
    entities,       \* result of find_all_entities for the request
    response,       \* what the handler returned / handed on
    entity_text,    \* is_whitelisted: argument
    wl_result,      \* is_whitelisted: result
    date_str,       \* shift_date: first input
    date_str2,      \* shift_date: second input, same shifter
    shift_months,   \* DateShifter.shift_months
    shift_days,     \* DateShifter.shift_days
    shifted,        \* outcome of shift_date(date_str)
    shifted2,       \* outcome of shift_date(date_str2)
    default_mech,   \* anonymize_text / _apply_mechanism: mechanism argument
    by_tag,         \* anonymize_text: mechanisms_by_tag, label -> mechanism
    entity_arg,     \* _apply_mechanism: entity_data, the entity or None
    blacklist_others,   \* number of further block-list terms, not named here
    whitelist_file,     \* whitelist.json: the stored list of entries
    whitelist_others    \* number of further allow-list entries, not named here

vars == <<phase, candidates, deduplicated, blacklist, whitelist, text, ner,
          entities, response, entity_text, wl_result, date_str, date_str2,
          shift_months, shift_days, shifted, shifted2, default_mech, by_tag,
          entity_arg, blacklist_others, whitelist_file, whitelist_others>>

resolverVars == <<candidates, deduplicated>>
requestVars  == <<blacklist, whitelist, text, ner, entities, response>>
matchVars    == <<entity_text, wl_result>>
dateVars     == <<date_str, date_str2, shift_months, shift_days, shifted, shifted2>>
engineVars   == <<default_mech, by_tag, entity_arg>>
storeVars    == <<blacklist_others, whitelist_file, whitelist_others>>

-----------------------------------------------------------------------------
(* Bounds *)

MaxPos == 4
MaxCands == 3
MaxTextLen == 3
MaxNer == 1
MaxEntryLen == 2
MaxWhitelist == 2
MaxScanLen == 7
MaxBulkLen == 2

-----------------------------------------------------------------------------
(* Strings *)

\* Letters are chosen outside the letters of "[REDACTED]".
Chars == {"N", "n", " "}

Lower(c) == IF c = "N" THEN "n" ELSE c

IsSpace(c) == c = " "

Digits == <<"0", "1", "2", "3", "4", "5", "6", "7", "8", "9">>

IsDigit(c) == \E i \in 1..10 : Digits[i] = c

DigitVal(c) == (CHOOSE i \in 1..10 : Digits[i] = c) - 1

StringsOfLen(n) == [1..n -> Chars]

StringsUpTo(n) == UNION {StringsOfLen(k) : k \in 0..n}

\* Python s[i:j] for 0 <= i <= j <= len(s)
Slice(s, i, j) == SubSeq(s, i + 1, j)

\* s.startswith(p, i)
MatchesAt(s, p, i) ==
    /\ i + Len(p) <= Len(s)
    /\ \A k \in 1..Len(p) : s[i + k] = p[k]

\* re.escape(p) compiled with re.IGNORECASE matches s at position i
MatchesAtIgnoreCase(s, p, i) ==
    /\ i + Len(p) <= Len(s)
    /\ \A k \in 1..Len(p) : Lower(s[i + k]) = Lower(p[k])

\* Python "p in s" for strings, scanning left to right
RECURSIVE FindFrom(_, _, _)
FindFrom(s, p, i) ==
    IF i + Len(p) > Len(s) THEN -1
    ELSE IF MatchesAt(s, p, i) THEN i
    ELSE FindFrom(s, p, i + 1)

StrContains(s, p) == FindFrom(s, p, 0) >= 0

RECURSIVE Concat(_)
Concat(ss) == IF ss = <<>> THEN <<>> ELSE Head(ss) \o Concat(Tail(ss))

\* Python str.split() with no argument: runs of whitespace separate the
\* words, no empty word is produced.
RECURSIVE SplitWs(_, _, _)
SplitWs(s, cur, acc) ==
    IF s = <<>> THEN (IF cur = <<>> THEN acc ELSE Append(acc, cur))
    ELSE IF IsSpace(Head(s))
         THEN SplitWs(Tail(s), <<>>, IF cur = <<>> THEN acc ELSE Append(acc, cur))
         ELSE SplitWs(Tail(s), Append(cur, Head(s)), acc)

split(s) == SplitWs(s, <<>>, <<>>)

Range(f) == {f[i] : i \in DOMAIN f}

-----------------------------------------------------------------------------
(* Entity resolver: NLPManager._deduplicate_entities *)

Entity(t, s, e, l, src) ==
    [text |-> t, start |-> s, end |-> e, label |-> l, source |-> src]

\* Faulty variant: the shortest span first among equal starts.
sort_key_shortest_first(e) ==
    LET is_blacklist == IF e.source = "blacklist" THEN 1 ELSE 0
    IN  <<-is_blacklist, e.start, e.end - e.start>>

\* Faulty variant: the key without the block-list bit.
sort_key_by_position(e) == <<0, e.start, -(e.end - e.start)>>

sort_key(e) ==
    LET is_blacklist == IF e.source = "blacklist" THEN 1 ELSE 0
    IN  <<-is_blacklist, e.start, -(e.end - e.start)>>

\* Python tuple comparison k1 < k2 on 3-tuples of integers
KeyLess(k1, k2) ==
    \/ k1[1] < k2[1]
    \/ k1[1] = k2[1] /\ k1[2] < k2[2]
    \/ k1[1] = k2[1] /\ k1[2] = k2[2] /\ k1[3] < k2[3]

\* sorted() is stable: an element goes after every element whose key is
\* not greater than its own.
RECURSIVE InsertByKey(_, _)
InsertByKey(e, s) ==
    IF s = <<>> THEN <<e>>
    ELSE IF KeyLess(sort_key(e), sort_key(Head(s))) THEN <<e>> \o s
    ELSE <<Head(s)>> \o InsertByKey(e, Tail(s))

RECURSIVE SortedByKey(_, _)
SortedByKey(todo, acc) ==
    IF todo = <<>> THEN acc
    ELSE SortedByKey(Tail(todo), InsertByKey(Head(todo), acc))

sorted_by_priority(es) == SortedByKey(es, <<>>)

\* Faulty variant: entities that only touch count as overlapping.
entities_overlap_touching(e1, e2) == ~(e1.end < e2.start \/ e2.end < e1.start)

\* Faulty variant: only containment in an accepted entity counts as an overlap.
entities_overlap_contained(e1, e2) == e2.start <= e1.start /\ e1.end <= e2.end

entities_overlap(e1, e2) == ~(e1.end <= e2.start \/ e2.end <= e1.start)

RECURSIVE DedupLoop(_, _)
DedupLoop(sorted_entities, acc) ==
    IF sorted_entities = <<>> THEN acc
    ELSE LET entity == Head(sorted_entities)
             overlaps == \E i \in 1..Len(acc) : entities_overlap(entity, acc[i])
         IN  DedupLoop(Tail(sorted_entities),
                       IF overlaps THEN acc ELSE Append(acc, entity))

deduplicate_entities(es) ==
    IF es = <<>> THEN <<>> ELSE DedupLoop(sorted_by_priority(es), <<>>)

-----------------------------------------------------------------------------
(* Pattern detector: backend/app/pii_patterns.py *)

\* \w of the regular expressions, for the characters used in texts
IsWordChar(c) == c \in {"N", "n", "x"} \/ IsDigit(c)

\* \b at offset i of s: exactly one side of the offset is a word character
WordBoundary(s, i) ==
    (i > 0 /\ IsWordChar(s[i])) # (i < Len(s) /\ IsWordChar(s[i + 1]))

\* ZIPCODE_PATTERN \b\d{5}\b matches s at offset i
ZipcodeMatchesAt(s, i) ==
    /\ i + 5 <= Len(s)
    /\ \A k \in 1..5 : IsDigit(s[i + k])
    /\ WordBoundary(s, i) /\ WordBoundary(s, i + 5)

\* Faulty variant: only a run of successive digits counts as sequential.
is_sequential_ascending(s) ==
    IF Len(s) < 3 THEN FALSE
    ELSE \A i \in 1..(Len(s) - 1) : DigitVal(s[i + 1]) - DigitVal(s[i]) = 1

\* RegexPIIDetector._is_sequential
is_sequential(s) ==
    IF Len(s) < 3 THEN FALSE
    ELSE LET diffs == [i \in 1..(Len(s) - 1) |-> DigitVal(s[i + 1]) - DigitVal(s[i])]
         IN  \A i \in 1..Len(diffs) : diffs[i] = diffs[1]

ZipcodeEntity(s, i) == Entity(SubSeq(s, i + 1, i + 5), i, i + 5, "ZIPCODE", "regex")

\* zipcode_regex.finditer(text) with the filter of find_zipcodes: the search
\* resumes at the end of a match, filtered out or not.
RECURSIVE FindZipcodesFrom(_, _)
FindZipcodesFrom(txt, pos) ==
    IF pos + 5 > Len(txt) THEN <<>>
    ELSE IF ZipcodeMatchesAt(txt, pos)
         THEN LET zipcode == SubSeq(txt, pos + 1, pos + 5)
              IN  (IF zipcode # <<"0", "0", "0", "0", "0">> /\ ~is_sequential(zipcode)
                   THEN <<ZipcodeEntity(txt, pos)>> ELSE <<>>)
                  \o FindZipcodesFrom(txt, pos + 5)
    ELSE FindZipcodesFrom(txt, pos + 1)

find_zipcodes(txt) == FindZipcodesFrom(txt, 0)

\* RegexPIIDetector.find_all. The titles need "Dr." and the like, the phone
\* numbers ten characters, the e-mail addresses "@", the dates two
\* separators among digits and the IBANs "DE": over the texts used here
\* only find_zipcodes can match.
find_all(txt) == find_zipcodes(txt)

-----------------------------------------------------------------------------
(* List matcher: block-list search and smart allow-list matching *)

\* ord(c) for the characters used in texts, terms and dates
CharCode(c) ==
    CASE c = " " -> 32 [] c = "-" -> 45 [] c = "." -> 46 [] c = "/" -> 47
      [] c = "0" -> 48 [] c = "1" -> 49 [] c = "2" -> 50 [] c = "3" -> 51
      [] c = "4" -> 52 [] c = "5" -> 53 [] c = "6" -> 54 [] c = "7" -> 55
      [] c = "8" -> 56 [] c = "9" -> 57 [] c = "N" -> 78 [] c = "n" -> 110
      [] c = "x" -> 120

\* Python str comparison a < b (by code point, a proper prefix is smaller)
RECURSIVE StrLess(_, _)
StrLess(a, b) ==
    IF b = <<>> THEN FALSE
    ELSE IF a = <<>> THEN TRUE
    ELSE IF CharCode(Head(a)) # CharCode(Head(b))
         THEN CharCode(Head(a)) < CharCode(Head(b))
    ELSE StrLess(Tail(a), Tail(b))

\* BlacklistManager.get_all: sorted(list(self.blacklist))
RECURSIVE get_all(_)
get_all(bl) ==
    IF bl = {} THEN <<>>
    ELSE LET least == CHOOSE t \in bl : \A u \in bl \ {t} : StrLess(t, u)
         IN  <<least>> \o get_all(bl \ {least})

BlacklistEntity(t, s, e) ==
    [text |-> t, start |-> s, end |-> e, label |-> "BLACKLISTED",
     source |-> "blacklist", whitelisted |-> FALSE]

\* re.compile(re.escape(term), re.IGNORECASE).finditer(text): leftmost
\* matches, each search resuming at the end of the previous match; an empty
\* pattern matches once at every position 0..len(text).
\* Faulty variant: the entity carries the block-list term, not the match.
RECURSIVE FindIterTerm(_, _, _)
FindIterTerm(txt, term, pos) ==
    IF pos + Len(term) > Len(txt) THEN <<>>
    ELSE IF MatchesAtIgnoreCase(txt, term, pos)
         THEN <<BlacklistEntity(term, pos, pos + Len(term))>>
              \o FindIterTerm(txt, term, IF Len(term) = 0 THEN pos + 1 ELSE pos + Len(term))
    ELSE FindIterTerm(txt, term, pos + 1)

RECURSIVE FindIter(_, _, _)
FindIter(txt, term, pos) ==
    IF pos + Len(term) > Len(txt) THEN <<>>
    ELSE IF MatchesAtIgnoreCase(txt, term, pos)
         THEN <<BlacklistEntity(Slice(txt, pos, pos + Len(term)), pos, pos + Len(term))>>
              \o FindIter(txt, term, IF Len(term) = 0 THEN pos + 1 ELSE pos + Len(term))
    ELSE FindIter(txt, term, pos + 1)

RECURSIVE FindTerms(_, _)
FindTerms(txt, terms) ==
    IF terms = <<>> THEN <<>>
    ELSE FindIter(txt, Head(terms), 0) \o FindTerms(txt, Tail(terms))

find_blacklisted_terms(txt, bl) == FindTerms(txt, get_all(bl))

\* Every detector's entities in the order find_all_entities collects them:
\* block-list matches, pattern matches, then what the NER models report.
collected_entities(txt, bl, found) ==
    find_blacklisted_terms(txt, bl) \o find_all(txt) \o found

\* NLPManager.find_all_entities: the collected entities through the resolver
find_all_entities(txt, bl, found) ==
    deduplicate_entities(collected_entities(txt, bl, found))

\* Faulty variant: exact matching only.
is_whitelisted_exact(etext, wl) == etext \in wl

is_whitelisted(etext, wl) ==
    IF etext \in wl THEN TRUE
    ELSE LET entity_words == split(etext)
         IN  IF \E i \in 1..Len(entity_words) : entity_words[i] \in wl THEN TRUE
             ELSE IF \E whitelisted_term \in wl : StrContains(etext, whitelisted_term)
                  THEN TRUE
             ELSE FALSE

-----------------------------------------------------------------------------
(* Date shifter: backend/app/date_shifter.py *)

\* Python str.split(sep) for a one-character separator: every occurrence
\* splits, empty parts are kept.
RECURSIVE SplitOn(_, _, _, _)
SplitOn(s, sep, cur, acc) ==
    IF s = <<>> THEN Append(acc, cur)
    ELSE IF Head(s) = sep THEN SplitOn(Tail(s), sep, <<>>, Append(acc, cur))
    ELSE SplitOn(Tail(s), sep, Append(cur, Head(s)), acc)

split_on(s, sep) == SplitOn(s, sep, <<>>, <<>>)

HasChar(s, c) == \E i \in 1..Len(s) : s[i] = c

RECURSIVE DigitsValue(_, _)
DigitsValue(s, acc) ==
    IF s = <<>> THEN acc ELSE DigitsValue(Tail(s), 10 * acc + DigitVal(Head(s)))

AllDigits(s) == s # <<>> /\ \A i \in 1..Len(s) : IsDigit(s[i])

\* Python int(s) over the characters used here: an optional "-" sign and at
\* least one decimal digit; anything else raises ValueError.
IntOk(s) == AllDigits(s) \/ (s # <<>> /\ Head(s) = "-" /\ AllDigits(Tail(s)))

IntVal(s) == IF Head(s) = "-" THEN -DigitsValue(Tail(s), 0) ELSE DigitsValue(s, 0)

\* Faulty variant: every fourth year is a leap year.
is_leap_year_every_fourth(year) == year % 4 = 0

is_leap_year(year) == year % 4 = 0 /\ (year % 100 # 0 \/ year % 400 = 0)

\* datetime's calendar: days in a month, range of years, ordinals
DaysInMonth(year, month) ==
    IF month = 2 THEN (IF is_leap_year(year) THEN 29 ELSE 28)
    ELSE IF month \in {4, 6, 9, 11} THEN 30 ELSE 31

\* datetime.MINYEAR = 1, datetime.MAXYEAR = 9999
ValidDate(year, month, day) ==
    /\ 1 <= year /\ year <= 9999
    /\ 1 <= month /\ month <= 12
    /\ 1 <= day /\ day <= DaysInMonth(year, month)

Date(y, m, d) == [year |-> y, month |-> m, day |-> d]

Raise == [kind |-> "raise"]

\* datetime(year, month, day): ValueError for a date that does not exist
MakeDate(year, month, day) ==
    IF ValidDate(year, month, day) THEN [kind |-> "ok", date |-> Date(year, month, day)]
    ELSE Raise

DaysBeforeYear(year) ==
    LET y == year - 1 IN y * 365 + (y \div 4) - (y \div 100) + (y \div 400)

RECURSIVE DaysBeforeMonth(_, _)
DaysBeforeMonth(year, month) ==
    IF month = 1 THEN 0
    ELSE DaysBeforeMonth(year, month - 1) + DaysInMonth(year, month - 1)

ToOrdinal(date) ==
    DaysBeforeYear(date.year) + DaysBeforeMonth(date.year, date.month) + date.day

MaxOrdinal == ToOrdinal(Date(9999, 12, 31))

RECURSIVE MonthOfDay(_, _, _)
MonthOfDay(year, month, n) ==
    IF n <= DaysInMonth(year, month) THEN Date(year, month, n)
    ELSE MonthOfDay(year, month + 1, n - DaysInMonth(year, month))

\* date.fromordinal(n) for 1 <= n <= MaxOrdinal
FromOrdinal(n) ==
    LET n0   == n - 1
        n400 == n0 \div 146097
        r400 == n0 % 146097
        n100 == r400 \div 36524
        r100 == r400 % 36524
        n4   == r100 \div 1461
        r4   == r100 % 1461
        n1   == r4 \div 365
        r1   == r4 % 365
        year == n400 * 400 + n100 * 100 + n4 * 4 + n1 + 1
    IN  IF n1 = 4 \/ n100 = 4 THEN Date(year - 1, 12, 31)
        ELSE MonthOfDay(year, 1, r1 + 1)

\* if year < 100: year += 2000 if year < 50 else 1900
ExpandYear(year) ==
    IF year < 100 THEN (IF year < 50 THEN year + 2000 ELSE year + 1900) ELSE year

\* One branch of _parse_date once the string is split in three parts;
\* iso tells which part is the year.
ParseParts(parts, iso) ==
    IF ~(IntOk(parts[1]) /\ IntOk(parts[2]) /\ IntOk(parts[3])) THEN Raise
    ELSE LET first == IntVal(parts[1])
             month == IntVal(parts[2])
             last  == IntVal(parts[3])
         IN  IF iso THEN MakeDate(ExpandYear(first), month, last)
             ELSE MakeDate(ExpandYear(last), month, first)

\* The loop "for sep in ['/', '-']" of _parse_date
RECURSIVE ParseWithSeps(_, _)
ParseWithSeps(s, seps) ==
    IF seps = <<>> THEN [kind |-> "none"]
    ELSE LET sep == Head(seps)
             parts == split_on(s, sep)
         IN  IF HasChar(s, sep) /\ Len(parts) = 3
             THEN ParseParts(parts, Len(parts[1]) = 4)
             ELSE ParseWithSeps(s, Tail(seps))

parse_date(s) ==
    IF HasChar(s, ".") /\ Len(split_on(s, ".")) = 3
    THEN ParseParts(split_on(s, "."), FALSE)
    ELSE ParseWithSeps(s, <<"/", "-">>)

\* Faulty variant: the months are carried without advancing the year.
RECURSIVE CarryMonthsSameYear(_, _)
CarryMonthsSameYear(new_month, new_year) ==
    IF new_month > 12 THEN CarryMonthsSameYear(new_month - 12, new_year)
    ELSE [month |-> new_month, year |-> new_year]

\* while new_month > 12: new_month -= 12; new_year += 1
RECURSIVE CarryMonths(_, _)
CarryMonths(new_month, new_year) ==
    IF new_month > 12 THEN CarryMonths(new_month - 12, new_year + 1)
    ELSE [month |-> new_month, year |-> new_year]

\* while new_month < 1: new_month += 12; new_year -= 1
RECURSIVE BorrowMonths(_, _)
BorrowMonths(new_month, new_year) ==
    IF new_month < 1 THEN BorrowMonths(new_month + 12, new_year - 1)
    ELSE [month |-> new_month, year |-> new_year]

\* Faulty variant: a day that does not exist becomes the first of the month.
ShiftMonthsFirstDay(date, months) ==
    IF months = 0 THEN [kind |-> "ok", date |-> date]
    ELSE LET up == CarryMonths(date.month + months, date.year)
             nm == BorrowMonths(up.month, up.year)
             replaced == MakeDate(nm.year, nm.month, date.day)
         IN  IF replaced.kind = "ok" THEN replaced
             ELSE MakeDate(nm.year, nm.month, 1)

\* The month part of _apply_shift
ShiftMonths(date, months) ==
    IF months = 0 THEN [kind |-> "ok", date |-> date]
    ELSE LET up == CarryMonths(date.month + months, date.year)
             nm == BorrowMonths(up.month, up.year)
             replaced == MakeDate(nm.year, nm.month, date.day)
         IN  IF replaced.kind = "ok" THEN replaced
             ELSE \* except ValueError: use the last day of the month
                  LET day == IF nm.month = 2
                             THEN (IF is_leap_year(nm.year) THEN 29 ELSE 28)
                             ELSE IF nm.month \in {4, 6, 9, 11} THEN 30 ELSE 31
                  IN  MakeDate(nm.year, nm.month, day)

\* date + timedelta(days): OverflowError outside datetime's range
AddDays(date, days) ==
    LET n == ToOrdinal(date) + days
    IN  IF n < 1 \/ n > MaxOrdinal THEN Raise
        ELSE [kind |-> "ok", date |-> FromOrdinal(n)]

\* Faulty variant: the day shift is done inside the month and clamped to its end.
apply_shift_within_month(date, months, days) ==
    LET m == ShiftMonths(date, months)
    IN  IF m.kind # "ok" THEN m
        ELSE LET d == m.date.day + days
                 last == DaysInMonth(m.date.year, m.date.month)
             IN  MakeDate(m.date.year, m.date.month,
                          IF d > last THEN last ELSE IF d < 1 THEN 1 ELSE d)

apply_shift(date, months, days) ==
    LET m == ShiftMonths(date, months)
    IN  IF m.kind # "ok" THEN m
        ELSE IF days # 0 THEN AddDays(m.date, days)
        ELSE m

\* Decimal digits of n, zero-padded to at least width characters
RECURSIVE Decimal(_, _)
Decimal(n, width) ==
    IF n < 10 /\ width <= 1 THEN <<Digits[n + 1]>>
    ELSE Decimal(n \div 10, width - 1) \o <<Digits[(n % 10) + 1]>>

\* strftime fields (years 1000..9999 for %Y)
Fd(date) == Decimal(date.day, 2)
Fm(date) == Decimal(date.month, 2)
FY(date) == Decimal(date.year, 4)
Fy(date) == Decimal(date.year % 100, 2)

Last(seq) == seq[Len(seq)]

format_date(date, original) ==
    IF HasChar(original, ".")
    THEN (IF Len(Last(split_on(original, "."))) = 2
          THEN Fd(date) \o <<".">> \o Fm(date) \o <<".">> \o Fy(date)
          ELSE Fd(date) \o <<".">> \o Fm(date) \o <<".">> \o FY(date))
    ELSE IF HasChar(original, "/")
    THEN Fd(date) \o <<"/">> \o Fm(date) \o <<"/">> \o FY(date)
    ELSE IF HasChar(original, "-")
    THEN (IF MatchesAt(original, <<"1", "9">>, 0)
             \/ MatchesAt(original, <<"2", "0">>, 0)
          THEN FY(date) \o <<"-">> \o Fm(date) \o <<"-">> \o Fd(date)
          ELSE Fd(date) \o <<"-">> \o Fm(date) \o <<"-">> \o FY(date))
    ELSE Fd(date) \o <<".">> \o Fm(date) \o <<".">> \o FY(date)

Returned(v, how) == [kind |-> "returned", value |-> v, outcome |-> how]

\* Faulty variant: no try/except around the three steps.
shift_date_unguarded(s, months, days) ==
    LET parsed == parse_date(s)
    IN  IF parsed.kind = "raise" THEN [kind |-> "raised", value |-> <<>>, outcome |-> "parse_raised"]
        ELSE IF parsed.kind = "none" THEN Returned(s, "not_parsed")
        ELSE LET sh == apply_shift(parsed.date, months, days)
             IN  IF sh.kind = "raise"
                 THEN [kind |-> "raised", value |-> <<>>, outcome |-> "shift_raised"]
                 ELSE Returned(format_date(sh.date, s), "shifted")

\* DateShifter.shift_date; outcome records which path was taken.
shift_date(s, months, days) ==
    LET parsed == parse_date(s)
    IN  IF parsed.kind = "raise" THEN Returned(s, "parse_raised")
        ELSE IF parsed.kind = "none" THEN Returned(s, "not_parsed")
        ELSE LET sh == apply_shift(parsed.date, months, days)
             IN  IF sh.kind = "raise" THEN Returned(s, "shift_raised")
                 ELSE Returned(format_date(sh.date, s), "shifted")

-----------------------------------------------------------------------------
(* Anonymization engine *)

Redacted == <<"[", "R", "E", "D", "A", "C", "T", "E", "D", "]">>

Mechanism(t, r) == [type |-> t, replacement |-> r]

\* AnonymizationMechanism(type="redact") and the empty mechanisms_by_tag
DefaultMechanism == Mechanism("redact", <<>>)

NoTags == [tag \in {} |-> DefaultMechanism]

\* entity_data=None
NoEntity == [field \in {} |-> <<>>]

HexDigits == <<"0", "1", "2", "3", "4", "5", "6", "7", "8", "9",
               "a", "b", "c", "d", "e", "f">>

RECURSIVE Hex(_, _)
Hex(n, width) ==
    IF width = 0 THEN <<>> ELSE Hex(n \div 16, width - 1) \o <<HexDigits[(n % 16) + 1]>>

\* hashlib.md5(text.encode()).hexdigest()[:8] is modelled as a digest that
\* is a function of the characters of the text alone, written as 8
\* hexadecimal digits.
RECURSIVE Digest(_, _, _)
Digest(s, acc, mult) ==
    IF s = <<>> THEN acc
    ELSE Digest(Tail(s), (acc * mult + CharCode(Head(s)) + 7) % 65536, mult)

Md5Hex8(s) == Hex(Digest(s, 5381, 31), 4) \o Hex(Digest(s, 40503, 37), 4)

\* Faulty variant: a type that is not handled leaves the text as it is.
apply_mechanism_passthrough(etext, mechanism, entity_data) ==
    IF mechanism.type = "redact" THEN Redacted ELSE etext

\* Faulty variant: the digest is taken over the text and the label.
apply_mechanism_labelled_hash(etext, mechanism, entity_data) ==
    IF mechanism.type = "hash"
    THEN <<"[", "H", "A", "S", "H", ":">>
         \o Md5Hex8(IF entity_data.label = "DATE" THEN etext \o <<"N">> ELSE etext)
         \o <<"]">>
    ELSE IF mechanism.type = "mask" THEN [i \in 1..Len(etext) |-> "*"]
    ELSE IF mechanism.type = "replace" THEN mechanism.replacement
    ELSE Redacted

\* Faulty variant: the partial branch without the case of a short text.
apply_mechanism_partial_unguarded(etext, mechanism, entity_data) ==
    IF mechanism.type = "replace"
    THEN (IF mechanism.replacement = <<>> THEN Redacted ELSE mechanism.replacement)
    ELSE IF mechanism.type = "hash"
         THEN <<"[", "H", "A", "S", "H", ":">> \o Md5Hex8(etext) \o <<"]">>
    ELSE IF mechanism.type = "partial"
         THEN <<etext[1]>> \o [i \in 1..(Len(etext) - 2) |-> "*"] \o <<etext[Len(etext)]>>
    ELSE IF mechanism.type = "mask" THEN [i \in 1..Len(etext) |-> "*"]
    ELSE Redacted

\* AnonymizationMechanism declares type and replacement only, so
\* getattr(mechanism, 'shift_months', None) and 'shift_days' give None and
\* the shifter is built with an offset of (0, 0).
apply_mechanism(etext, mechanism, entity_data) ==
    IF mechanism.type = "redact" THEN Redacted
    ELSE IF mechanism.type = "replace"
         THEN (IF mechanism.replacement = <<>> THEN Redacted ELSE mechanism.replacement)
    ELSE IF mechanism.type = "hash"
         THEN <<"[", "H", "A", "S", "H", ":">> \o Md5Hex8(etext) \o <<"]">>
    ELSE IF mechanism.type = "partial"
         THEN (IF Len(etext) <= 2 THEN <<etext[1], "*">>
               ELSE <<etext[1]>> \o [i \in 1..(Len(etext) - 2) |-> "*"]
                    \o <<etext[Len(etext)]>>)
    ELSE IF mechanism.type = "mask" THEN [i \in 1..Len(etext) |-> "*"]
    ELSE IF mechanism.type = "shift"
         THEN (IF "label" \in DOMAIN entity_data /\ entity_data.label = "DATE"
               THEN shift_date(etext, 0, 0).value
               ELSE Redacted)
    ELSE Redacted

\* text[0] of the partial branch is an IndexError for an empty text
apply_mechanism_raises(etext, mechanism) ==
    mechanism.type = "partial" /\ etext = <<>>

Min(a, b) == IF a < b THEN a ELSE b

\* A slice index as Python normalises it: a negative index counts from the
\* end, and the result is clamped to 0..len(s).
SliceIndex(s, i) ==
    IF i < 0 THEN (IF i + Len(s) < 0 THEN 0 ELSE i + Len(s)) ELSE Min(i, Len(s))

\* Python s[:i] and s[j:]
PyPrefix(s, i) == SubSeq(s, 1, SliceIndex(s, i))
PySuffix(s, j) == SubSeq(s, SliceIndex(s, j) + 1, Len(s))

\* sorted(filtered, key=start, reverse=True): stable, equal starts keep
\* their order.
RECURSIVE InsertByStartDesc(_, _)
InsertByStartDesc(e, s) ==
    IF s = <<>> THEN <<e>>
    ELSE IF e.start > Head(s).start THEN <<e>> \o s
    ELSE <<Head(s)>> \o InsertByStartDesc(e, Tail(s))

\* Faulty variant: the entities are processed in the order given.
SortedAsGiven(todo, acc) == acc \o todo

RECURSIVE SortedByStartDesc(_, _)
SortedByStartDesc(todo, acc) ==
    IF todo = <<>> THEN acc
    ELSE SortedByStartDesc(Tail(todo), InsertByStartDesc(Head(todo), acc))

\* Faulty variant: the exclusion filter uses the smart allow-list matching.
ExclusionFilterSmart(es, wl) == SelectSeq(es, LAMBDA e : ~is_whitelisted(e.text, wl))

\* filtered_entities = [e for e in entities if e["text"] not in whitelist]
ExclusionFilter(es, wl) == SelectSeq(es, LAMBDA e : e.text \notin wl)

\* Faulty variant: every entity gets the default mechanism.
select_default_only(entity, default_mechanism, mechanisms_by_tag) == default_mechanism

\* mechanisms_by_tag.get(entity["label"], default_mechanism)
select_mechanism(entity, default_mechanism, mechanisms_by_tag) ==
    IF entity.label \in DOMAIN mechanisms_by_tag
    THEN mechanisms_by_tag[entity.label]
    ELSE default_mechanism

RECURSIVE RewriteLoop(_, _, _, _, _)
RewriteLoop(sorted_entities, anonymized_text, replacements, default_mechanism, mechanisms_by_tag) ==
    IF sorted_entities = <<>>
    THEN [raised |-> FALSE, anonymized_text |-> anonymized_text,
          replacements |-> replacements]
    ELSE LET entity == Head(sorted_entities)
             mechanism == select_mechanism(entity, default_mechanism, mechanisms_by_tag)
             replacement == apply_mechanism(entity.text, mechanism, entity)
             rewritten == PyPrefix(anonymized_text, entity.start) \o replacement
                          \o PySuffix(anonymized_text, entity.end)
             record == [original |-> entity.text, replacement |-> replacement,
                        start |-> entity.start, end |-> entity.end,
                        label |-> entity.label, mechanism |-> mechanism.type]
         IN  IF apply_mechanism_raises(entity.text, mechanism)
             THEN [raised |-> TRUE, anonymized_text |-> anonymized_text,
                   replacements |-> replacements]
             ELSE RewriteLoop(Tail(sorted_entities), rewritten,
                              Append(replacements, record),
                              default_mechanism, mechanisms_by_tag)

\* Faulty variant: entities_found counts the entities as they came in.
anonymize_text_counts_all(txt, es, default_mechanism, mechanisms_by_tag, wl) ==
    LET filtered_entities == ExclusionFilter(es, wl)
        sorted_entities == SortedByStartDesc(filtered_entities, <<>>)
        done == RewriteLoop(sorted_entities, txt, <<>>, default_mechanism, mechanisms_by_tag)
    IN  IF done.raised THEN Raise
        ELSE [kind |-> "anonymize",
              original_text |-> txt,
              anonymized_text |-> done.anonymized_text,
              entities_found |-> Len(es),
              entities_anonymized |-> Len(done.replacements),
              replacements |-> done.replacements]

\* No except clause: an exception of _apply_mechanism leaves anonymize_text.
anonymize_text(txt, es, default_mechanism, mechanisms_by_tag, wl) ==
    LET filtered_entities == ExclusionFilter(es, wl)
        sorted_entities == SortedByStartDesc(filtered_entities, <<>>)
        done == RewriteLoop(sorted_entities, txt, <<>>, default_mechanism, mechanisms_by_tag)
    IN  IF done.raised THEN Raise
        ELSE [kind |-> "anonymize",
              original_text |-> txt,
              anonymized_text |-> done.anonymized_text,
              entities_found |-> Len(filtered_entities),
              entities_anonymized |-> Len(done.replacements),
              replacements |-> done.replacements]

-----------------------------------------------------------------------------
(* Request handlers *)

\* Faulty variant: the whitelisted flag without the source guard.
EntityInfoUnguarded(e, wl) ==
    [text |-> e.text, start |-> e.start, end |-> e.end, label |-> e.label,
     source |-> e.source, whitelisted |-> is_whitelisted(e.text, wl)]

\* One element of find_piis' filtered_entities
EntityInfo(e, wl) ==
    [text |-> e.text, start |-> e.start, end |-> e.end, label |-> e.label,
     source |-> e.source,
     whitelisted |-> (e.source # "blacklist" /\ is_whitelisted(e.text, wl))]

find_piis(es, wl) ==
    LET filtered_entities == [i \in 1..Len(es) |-> EntityInfo(es[i], wl)]
    IN  [kind |-> "find_piis",
         entities |-> filtered_entities,
         total_found |-> Len(filtered_entities),
         whitelisted_count |->
             Cardinality({i \in 1..Len(filtered_entities) : filtered_entities[i].whitelisted})]

\* PDFManager.anonymize_pdf_hybrid, up to the entity list it hands to the
\* overlay renderer.
HybridFilter(es, wl) == SelectSeq(es, LAMBDA e : ~is_whitelisted(e.text, wl))

-----------------------------------------------------------------------------
(* The two stores: BlacklistManager and WhitelistStorage *)

\* blacklist_manager.py: MAX_BLACKLIST_ENTRIES
MAX_BLACKLIST_ENTRIES == 10000

\* storage.py: MAX_WHITELIST_ENTRIES
MAX_WHITELIST_ENTRIES == 10000

\* The block-list is the set bl of the terms named in the model together
\* with others further terms, so len(self.blacklist) is their sum. A list
\* of terms handed to set_all is likewise a list of named terms followed by
\* a number of further, distinct terms.
BlacklistResult(ok, bl, others) == [success |-> ok, blacklist |-> bl, others |-> others]

\* Faulty variant: a term is added without looking for it in the set.
add_entry_unchecked(bl, others, term) ==
    IF Cardinality(bl) + others >= MAX_BLACKLIST_ENTRIES
    THEN BlacklistResult(FALSE, bl, others)
    ELSE BlacklistResult(TRUE, bl \cup {term}, others)

\* BlacklistManager.add_entry
add_entry(bl, others, term) ==
    IF term \in bl THEN BlacklistResult(FALSE, bl, others)
    ELSE IF Cardinality(bl) + others >= MAX_BLACKLIST_ENTRIES
         THEN BlacklistResult(FALSE, bl, others)
    ELSE BlacklistResult(TRUE, bl \cup {term}, others)

\* BlacklistManager.remove_entry
remove_entry(bl, others, term) ==
    IF term \notin bl THEN BlacklistResult(FALSE, bl, others)
    ELSE BlacklistResult(TRUE, bl \ {term}, others)

\* BlacklistManager.set_all
set_all(bl, others, terms, more_terms) ==
    IF Len(terms) + more_terms > MAX_BLACKLIST_ENTRIES
    THEN BlacklistResult(FALSE, bl, others)
    ELSE BlacklistResult(TRUE, Range(terms), more_terms)

\* The allow-list file is the list file of the entries named in the model
\* together with others further entries. save_json_file is taken to
\* succeed.
WhitelistResult(ok, file, others) == [success |-> ok, file |-> file, others |-> others]

\* list.remove(entry): the first occurrence goes
RECURSIVE ListRemove(_, _)
ListRemove(list, entry) ==
    IF list = <<>> THEN <<>>
    ELSE IF Head(list) = entry THEN Tail(list)
    ELSE <<Head(list)>> \o ListRemove(Tail(list), entry)

\* WhitelistStorage.add
whitelist_add(file, others, entry) ==
    IF Len(file) + others >= MAX_WHITELIST_ENTRIES THEN WhitelistResult(FALSE, file, others)
    ELSE IF entry \notin Range(file) THEN WhitelistResult(TRUE, Append(file, entry), others)
    ELSE WhitelistResult(TRUE, file, others)

\* WhitelistStorage.remove
whitelist_remove(file, others, entry) ==
    IF entry \in Range(file) THEN WhitelistResult(TRUE, ListRemove(file, entry), others)
    ELSE WhitelistResult(TRUE, file, others)

\* WhitelistStorage.set_all
whitelist_set_all(file, others, entries, more_entries) ==
    IF Len(entries) + more_entries > MAX_WHITELIST_ENTRIES
    THEN WhitelistResult(FALSE, file, others)
    ELSE WhitelistResult(TRUE, entries, more_entries)

-----------------------------------------------------------------------------
(* Idle values of the variables a specification does not use *)

IdleResolver == candidates = <<>> /\ deduplicated = <<>>

IdleRequests ==
    /\ blacklist = {} /\ whitelist = {} /\ text = <<>> /\ ner = <<>>
    /\ entities = <<>> /\ response = [kind |-> "none"]

IdleMatch == entity_text = <<>> /\ wl_result = FALSE

IdleDates ==
    /\ date_str = <<>> /\ date_str2 = <<>> /\ shift_months = 0 /\ shift_days = 0
    /\ shifted = [kind |-> "none"] /\ shifted2 = [kind |-> "none"]

IdleEngine ==
    /\ default_mech = DefaultMechanism /\ by_tag = NoTags /\ entity_arg = NoEntity

IdleStores ==
    /\ blacklist_others = 0 /\ whitelist_file = <<>> /\ whitelist_others = 0

-----------------------------------------------------------------------------
(* Specification of the resolver alone: any list of candidates *)

\* A block-list term may be empty (set_all stores any list of strings), so a
\* block-list candidate may have start = end; the NER models and the
\* patterns report non-empty spans.
CandidateEntities ==
    {BlacklistEntity(<<>>, s, e) : s \in 0..MaxPos, e \in 0..MaxPos} \cup
    {Entity(<<>>, s, e, "PER", "spacy") : s \in 0..MaxPos, e \in 0..MaxPos}

WellFormed(c) ==
    IF c.source = "blacklist" THEN c.start <= c.end ELSE c.start < c.end

CandidateLists(n) == [1..n -> {c \in CandidateEntities : WellFormed(c)}]

InitResolver ==
    /\ phase = "candidates"
    /\ \E n \in 0..MaxCands : candidates \in CandidateLists(n)
    /\ deduplicated = <<>>
    /\ IdleRequests /\ IdleMatch /\ IdleDates /\ IdleEngine /\ IdleStores

Deduplicate ==
    /\ phase = "candidates"
    /\ deduplicated' = deduplicate_entities(candidates)
    /\ phase' = "deduplicated"
    /\ UNCHANGED <<candidates, requestVars, matchVars, dateVars, engineVars, storeVars>>

NextResolver == Deduplicate

SpecResolver == InitResolver /\ [][NextResolver]_vars

-----------------------------------------------------------------------------
(* Specification of the request handlers *)

\* Terms the two lists are filled from (PUT /blacklist and PUT /whitelist
\* store any list of strings, the empty string included).
ListTerms == {<<"N">>, <<"N", " ", "n">>, <<>>}

RequestTexts == StringsUpTo(MaxTextLen) \ {<<>>}

\* What find_entities_spacy may report for a text: doc.ents, non-empty
\* spans of the text in document order that do not overlap each other
\* (Stanza is optional and taken as not installed). The patterns of
\* pii_patterns.py need digits, "@" or a title and match nothing over Chars.
NerEntities(txt) ==
    {Entity(Slice(txt, s, e), s, e, "PER", "spacy") :
        s \in 0..Len(txt), e \in 0..Len(txt)}

InDocumentOrder(es) == \A i, j \in 1..Len(es) : i < j => es[i].end <= es[j].start

NerLists(txt) ==
    {es \in UNION {[1..n -> {c \in NerEntities(txt) : c.start < c.end}] : n \in 0..MaxNer} :
        InDocumentOrder(es)}

InitRequests ==
    /\ phase = "ready"
    /\ blacklist \in SUBSET ListTerms
    /\ whitelist \in SUBSET ListTerms
    /\ text = <<>> /\ ner = <<>> /\ entities = <<>>
    /\ response = [kind |-> "none"]
    /\ IdleResolver /\ IdleMatch /\ IdleDates /\ IdleEngine /\ IdleStores

\* The handlers keep no state between requests: each reads the two lists
\* and its own input, so one request per behaviour covers them.
Detect(txt, found) ==
    /\ text' = txt
    /\ ner' = found
    /\ entities' = find_all_entities(txt, blacklist, found)
    /\ UNCHANGED <<blacklist, whitelist, resolverVars, matchVars, dateVars,
                   engineVars, storeVars>>

\* POST /api/find-piis
FindPiis ==
    /\ phase = "ready"
    /\ \E txt \in RequestTexts : \E found \in NerLists(txt) :
        /\ Detect(txt, found)
        /\ response' = find_piis(entities', whitelist)
        /\ phase' = "find_piis"

\* POST /api/anonymize without a template
AnonymizeText ==
    /\ phase = "ready"
    /\ \E txt \in RequestTexts : \E found \in NerLists(txt) :
        /\ Detect(txt, found)
        /\ response' = anonymize_text(txt, entities', DefaultMechanism, NoTags, whitelist)
        /\ phase' = "anonymize"

\* PDFManager.anonymize_pdf_hybrid for an uploaded PDF and a stored template
AnonymizePdfHybrid ==
    /\ phase = "ready"
    /\ \E txt \in StringsUpTo(MaxTextLen) : \E found \in NerLists(txt) :
        /\ Detect(txt, found)
        /\ response' = [kind |-> "hybrid", entities |-> HybridFilter(entities', whitelist)]
        /\ phase' = "hybrid"

NextRequests == FindPiis \/ AnonymizeText \/ AnonymizePdfHybrid

SpecRequests == InitRequests /\ [][NextRequests]_vars

-----------------------------------------------------------------------------
(* Specification of is_whitelisted alone: any text against any allow-list *)

Whitelists ==
    {{}} \cup {Range(f) : f \in [1..MaxWhitelist -> StringsUpTo(MaxEntryLen)]}

InitMatch ==
    /\ phase = "arguments"
    /\ entity_text \in StringsUpTo(MaxTextLen)
    /\ whitelist \in Whitelists
    /\ wl_result = FALSE
    /\ blacklist = {} /\ text = <<>> /\ ner = <<>> /\ entities = <<>>
    /\ response = [kind |-> "none"]
    /\ IdleResolver /\ IdleDates /\ IdleEngine /\ IdleStores

IsWhitelisted ==
    /\ phase = "arguments"
    /\ wl_result' = is_whitelisted(entity_text, whitelist)
    /\ phase' = "matched"
    /\ UNCHANGED <<entity_text, requestVars, resolverVars, dateVars, engineVars,
                   storeVars>>

NextMatch == IsWhitelisted

SpecMatch == InitMatch /\ [][NextMatch]_vars

-----------------------------------------------------------------------------
(* Specification of the date shifter: two dates shifted by one shifter *)

Str2(a, b) == <<a, b>>
Str4(a, b, c, d) == <<a, b, c, d>>

FirstParts ==
    {Str2("1", "5"), Str2("2", "0"), Str2("3", "0"), Str2("3", "1"),
     Str4("2", "0", "2", "4"), Str4("9", "9", "9", "9")}

MiddleParts ==
    {Str2("0", "1"), Str2("0", "2"), Str2("0", "3"), Str2("1", "2"), Str2("1", "3")}

LastParts ==
    {Str4("2", "0", "2", "4"), Str2("2", "4"), Str4("9", "9", "9", "9"),
     Str4("1", "9", "0", "0"), Str2("1", "5"), Str2("x", "x")}

Separators == {".", "/", "-"}

\* Three parts joined by one separator, and strings with fewer or more parts
DateStrings ==
    {a \o <<sep>> \o b \o <<sep>> \o c :
        a \in FirstParts, b \in MiddleParts, c \in LastParts, sep \in Separators}
    \cup {a \o <<sep>> \o b : a \in FirstParts, b \in MiddleParts, sep \in Separators}
    \cup {<<"1", sep, "2", sep, "3", sep, "4">> : sep \in Separators}
    \cup {<<>>, <<"x">>, <<"1", "5", ".", "0", "3", "/", "2", "0", "2", "4">>}

\* The second date of the document
SecondDates ==
    {<<"2", "0", ".", "0", "3", ".", "2", "0", "2", "4">>,
     <<"3", "1", ".", "0", "1", ".", "2", "0", "2", "4">>,
     <<"1", "5", ".", "0", "2", ".", "2", "0", "2", "4">>,
     <<"2", "0", "2", "4", "-", "0", "3", "-", "1", "5">>}

ShiftMonthsValues == {-13, -1, 0, 1, 28}

ShiftDaysValues == {-1, 0, 10}

InitDates ==
    /\ phase = "dates"
    /\ date_str \in DateStrings
    /\ date_str2 \in SecondDates
    /\ shift_months \in ShiftMonthsValues
    /\ shift_days \in ShiftDaysValues
    /\ shifted = [kind |-> "none"]
    /\ shifted2 = [kind |-> "none"]
    /\ IdleResolver /\ IdleRequests /\ IdleMatch /\ IdleEngine /\ IdleStores

\* shifter.shift_date(date_str)
ShiftDate ==
    /\ phase = "dates"
    /\ shifted' = shift_date(date_str, shift_months, shift_days)
    /\ phase' = "first_shifted"
    /\ UNCHANGED <<date_str, date_str2, shift_months, shift_days, shifted2,
                   resolverVars, requestVars, matchVars, engineVars, storeVars>>

\* shifter.shift_date(date_str2), same shifter
ShiftSecondDate ==
    /\ phase = "first_shifted"
    /\ shifted2' = shift_date(date_str2, shift_months, shift_days)
    /\ phase' = "both_shifted"
    /\ UNCHANGED <<date_str, date_str2, shift_months, shift_days, shifted,
                   resolverVars, requestVars, matchVars, engineVars, storeVars>>

NextDates == ShiftDate \/ ShiftSecondDate

SpecDates == InitDates /\ [][NextDates]_vars

-----------------------------------------------------------------------------
(* Specification of Anonymizer.anonymize_text alone: any entities, well-   *)
(* formed or not, any of several mechanism configurations                  *)

AnonymizerTexts == {t \in StringsUpTo(MaxTextLen) : \A i \in 1..Len(t) : t[i] # " "}

EntityLabels == {"PER", "DATE"}

InBounds(txt, s, e) == 0 <= s /\ s < e /\ e <= Len(txt)

\* An entity dict as a caller may pass it: any offsets, also outside the
\* text or reversed. An in-bounds entity carries the text of its span.
CallerEntities(txt) ==
    {Entity(IF InBounds(txt, s, e) THEN Slice(txt, s, e) ELSE <<"N">>, s, e, l, "spacy") :
        s \in -1..(Len(txt) + 1), e \in -1..(Len(txt) + 1), l \in EntityLabels}

\* No entity, one entity or two entities
CallerEntityLists(txt) ==
    {<<>>} \cup {<<a>> : a \in CallerEntities(txt)}
           \cup {<<a, b>> : a \in CallerEntities(txt), b \in CallerEntities(txt)}

Tagged(label, mechanism) == [tag \in {label} |-> mechanism]

\* (default_mechanism, mechanisms_by_tag) as built from a template
MechanismConfigs ==
    {<<Mechanism("redact", <<>>), NoTags>>,
     <<Mechanism("hash", <<>>), NoTags>>,
     <<Mechanism("mask", <<>>), Tagged("DATE", Mechanism("hash", <<>>))>>,
     <<Mechanism("hash", <<>>), Tagged("PER", Mechanism("replace", <<"n">>))>>}

InitAnonymizer ==
    /\ phase = "call"
    /\ text \in AnonymizerTexts
    /\ entities \in CallerEntityLists(text)
    /\ whitelist \in {{}, {<<"N">>}}
    /\ \E config \in MechanismConfigs :
          default_mech = config[1] /\ by_tag = config[2]
    /\ entity_arg = NoEntity
    /\ blacklist = {} /\ ner = <<>> /\ response = [kind |-> "none"]
    /\ IdleResolver /\ IdleMatch /\ IdleDates /\ IdleStores

\* anonymizer.anonymize_text(text, entities, default_mechanism,
\*                           mechanisms_by_tag, whitelist)
AnonymizerCall ==
    /\ phase = "call"
    /\ response' = anonymize_text(text, entities, default_mech, by_tag, whitelist)
    /\ phase' = "anonymized"
    /\ UNCHANGED <<blacklist, whitelist, text, ner, entities, resolverVars,
                   matchVars, dateVars, engineVars, storeVars>>

NextAnonymizer == AnonymizerCall

SpecAnonymizer == InitAnonymizer /\ [][NextAnonymizer]_vars

-----------------------------------------------------------------------------
(* Specification of Anonymizer._apply_mechanism alone *)

KnownTypes == {"redact", "replace", "hash", "partial", "mask", "shift"}

MechanismTypes == KnownTypes \cup {"encrypt", "REDACT", ""}

Mechanisms ==
    {Mechanism(t, <<>>) : t \in MechanismTypes} \cup {Mechanism("replace", <<"n">>)}

\* entity_data: None, or the entity the text belongs to
EntityArguments(etext) ==
    {NoEntity} \cup {Entity(etext, 0, Len(etext), l, "spacy") : l \in EntityLabels}

InitMechanism ==
    /\ phase = "mechanism"
    /\ entity_text \in StringsUpTo(MaxTextLen)
    /\ default_mech \in Mechanisms
    /\ entity_arg \in EntityArguments(entity_text)
    /\ by_tag = NoTags
    /\ wl_result = FALSE
    /\ IdleResolver /\ IdleRequests /\ IdleDates /\ IdleStores

\* self._apply_mechanism(text, mechanism, entity_data)
ApplyMechanism ==
    /\ phase = "mechanism"
    /\ response' = IF apply_mechanism_raises(entity_text, default_mech) THEN Raise
                   ELSE [kind |-> "replacement",
                         value |-> apply_mechanism(entity_text, default_mech, entity_arg)]
    /\ phase' = "applied"
    /\ UNCHANGED <<blacklist, whitelist, text, ner, entities, resolverVars,
                   matchVars, dateVars, engineVars, storeVars>>

NextMechanism == ApplyMechanism

SpecMechanism == InitMechanism /\ [][NextMechanism]_vars

-----------------------------------------------------------------------------
(* Specification of the detectors: any text with digits scanned against    *)
(* any block-list                                                          *)

ScanTexts == UNION {[1..n -> {"1", "2", "N", " "}] : n \in 0..MaxScanLen}

ScanTerms == {<<"n">>, <<"1", "2">>, <<>>}

\* No term, one term, or all of them
ScanBlacklists == {{}, ScanTerms} \cup {{t} : t \in ScanTerms}

\* Every sequence of five digits, scanned with an empty block-list
ZipTexts == [1..5 -> Range(Digits)]

InitScan ==
    /\ phase = "scan"
    /\ \/ text \in ScanTexts /\ blacklist \in ScanBlacklists
       \/ text \in ZipTexts /\ blacklist = {}
    /\ candidates = <<>>
    /\ entities = <<>>
    /\ whitelist = {} /\ ner = <<>> /\ response = [kind |-> "none"]
    /\ deduplicated = <<>>
    /\ IdleMatch /\ IdleDates /\ IdleEngine /\ IdleStores

\* nlp_manager.find_all_entities(text), the NER models reporting nothing:
\* candidates is the list handed to the resolver, entities the list returned.
FindAllEntities ==
    /\ phase = "scan"
    /\ candidates' = collected_entities(text, blacklist, <<>>)
    /\ entities' = find_all_entities(text, blacklist, <<>>)
    /\ phase' = "scanned"
    /\ UNCHANGED <<deduplicated, blacklist, whitelist, text, ner, response,
                   matchVars, dateVars, engineVars, storeVars>>

NextScan == FindAllEntities

SpecScan == InitScan /\ [][NextScan]_vars

-----------------------------------------------------------------------------
(* Specification of the list endpoints: any sequence of additions,         *)
(* removals and replacements on the two stores                             *)

\* WhitelistEntry.entry has min_length=1
StoreEntries == {<<"N">>, <<"n">>}

BulkLists == UNION {[1..n -> StoreEntries] : n \in 0..MaxBulkLen}

\* How many further entries a bulk update carries: none, or enough to
\* come near, reach or pass the limit
FurtherEntries(limit) == {0, limit - 1, limit, limit + 1}

\* Both stores are empty before the first request.
InitStores ==
    /\ phase = "stores"
    /\ blacklist = {} /\ blacklist_others = 0
    /\ whitelist_file = <<>> /\ whitelist_others = 0
    /\ response = [kind |-> "none"]
    /\ whitelist = {} /\ text = <<>> /\ ner = <<>> /\ entities = <<>>
    /\ IdleResolver /\ IdleMatch /\ IdleDates /\ IdleEngine

BlacklistRequest(kind, r, status, input) ==
    /\ blacklist' = r.blacklist
    /\ blacklist_others' = r.others
    /\ response' = [kind |-> kind, input |-> input, success |-> r.success,
                    status |-> status,
                    before |-> [blacklist |-> blacklist, others |-> blacklist_others]]
    /\ UNCHANGED <<phase, whitelist_file, whitelist_others, whitelist, text, ner,
                   entities, resolverVars, matchVars, dateVars, engineVars>>

WhitelistRequest(kind, r, status, input) ==
    /\ whitelist_file' = r.file
    /\ whitelist_others' = r.others
    /\ response' = [kind |-> kind, input |-> input, success |-> r.success,
                    status |-> status,
                    before |-> [file |-> whitelist_file, others |-> whitelist_others]]
    /\ UNCHANGED <<phase, blacklist, blacklist_others, whitelist, text, ner,
                   entities, resolverVars, matchVars, dateVars, engineVars>>

\* POST /api/blacklist
AddBlacklistEntry ==
    /\ phase = "stores"
    /\ \E entry \in StoreEntries :
           LET r == add_entry(blacklist, blacklist_others, entry)
           IN  BlacklistRequest("add_blacklist", r, IF r.success THEN 201 ELSE 409, entry)

\* DELETE /api/blacklist/{entry}
RemoveBlacklistEntry ==
    /\ phase = "stores"
    /\ \E entry \in StoreEntries :
           LET r == remove_entry(blacklist, blacklist_others, entry)
           IN  BlacklistRequest("remove_blacklist", r, IF r.success THEN 200 ELSE 404, entry)

\* blacklist_manager.set_all(terms) as update_blacklist calls it
UpdateBlacklist ==
    /\ phase = "stores"
    /\ \E terms \in BulkLists : \E more \in FurtherEntries(MAX_BLACKLIST_ENTRIES) :
           LET r == set_all(blacklist, blacklist_others, terms, more)
           IN  BlacklistRequest("set_blacklist", r, IF r.success THEN 200 ELSE 400,
                                [terms |-> terms, more |-> more])

\* POST /api/whitelist
AddWhitelistEntry ==
    /\ phase = "stores"
    /\ \E entry \in StoreEntries :
           LET r == whitelist_add(whitelist_file, whitelist_others, entry)
           IN  WhitelistRequest("add_whitelist", r, IF r.success THEN 201 ELSE 409, entry)

\* DELETE /api/whitelist/{entry}
RemoveWhitelistEntry ==
    /\ phase = "stores"
    /\ \E entry \in StoreEntries :
           LET r == whitelist_remove(whitelist_file, whitelist_others, entry)
           IN  WhitelistRequest("remove_whitelist", r, IF r.success THEN 200 ELSE 404, entry)

\* WhitelistStorage.set_all(entries) as update_whitelist calls it
UpdateWhitelist ==
    /\ phase = "stores"
    /\ \E entries \in BulkLists : \E more \in FurtherEntries(MAX_WHITELIST_ENTRIES) :
           LET r == whitelist_set_all(whitelist_file, whitelist_others, entries, more)
           IN  WhitelistRequest("set_whitelist", r, IF r.success THEN 200 ELSE 400,
                                [terms |-> entries, more |-> more])

NextStores ==
    \/ AddBlacklistEntry \/ RemoveBlacklistEntry \/ UpdateBlacklist
    \/ AddWhitelistEntry \/ RemoveWhitelistEntry \/ UpdateWhitelist

SpecStores == InitStores /\ [][NextStores]_vars

-----------------------------------------------------------------------------
(* C1 *)

SharesCharacter(a, b) ==
    \E k \in 0..(MaxPos + MaxTextLen) :
        /\ a.start <= k /\ k < a.end
        /\ b.start <= k /\ k < b.end

PairwiseDisjoint(es) ==
    \A i, j \in 1..Len(es) : i < j => ~SharesCharacter(es[i], es[j])

\* C1: in the output of _deduplicate_entities no two entities have
\* half-open intervals [start,end) that share a character, whatever mix of
\* overlapping block-list and other candidates went in.
C1_NonOverlap == phase = "deduplicated" => PairwiseDisjoint(deduplicated)

C1_Witness ==
    /\ phase = "deduplicated"
    /\ Len(deduplicated) >= 2
    /\ Len(deduplicated) < Len(candidates)
    /\ \E i, j \in 1..Len(candidates) :
          /\ candidates[i].source # candidates[j].source
          /\ SharesCharacter(candidates[i], candidates[j])

-----------------------------------------------------------------------------
(* C2 *)

\* C2: for a non-empty literal string that is in both the block-list and
\* the allow-list, anonymizing a text that contains it never leaves that
\* literal string in the anonymized text.
C2_BlacklistOverridesWhitelist ==
    phase = "anonymize" =>
        \A t \in blacklist \cap whitelist :
            (t # <<>> /\ StrContains(text, t)) =>
                ~StrContains(response.anonymized_text, t)

-----------------------------------------------------------------------------
(* C3 *)

HasRecord(e, replacements) ==
    \E k \in 1..Len(replacements) :
        /\ replacements[k].start = e.start
        /\ replacements[k].end = e.end
        /\ replacements[k].original = e.text
        /\ replacements[k].replacement = Redacted

\* C3: in the text anonymization path a block-list entity whose text is not
\* itself an allow-list entry is rewritten, also when an allow-list entry is
\* one of its words or a substring of it.
C3_SmartMatchDoesNotExemptBlacklist ==
    phase = "anonymize" =>
        \A i \in 1..Len(entities) :
            (entities[i].source = "blacklist" /\ entities[i].text \notin whitelist) =>
                /\ HasRecord(entities[i], response.replacements)
                /\ response.entities_anonymized >= 1

C3_Witness ==
    /\ phase = "anonymize"
    /\ <<>> \notin whitelist
    /\ \E i \in 1..Len(entities) :
          /\ entities[i].source = "blacklist"
          /\ entities[i].text \notin whitelist
          /\ \E k \in 1..Len(split(entities[i].text)) :
                split(entities[i].text)[k] \in whitelist
          /\ HasRecord(entities[i], response.replacements)

-----------------------------------------------------------------------------
(* C4 *)

\* C4: in the hybrid PDF path every block-list entity found in the
\* document is among the entities handed on for anonymization, whatever
\* the allow-list contains (stated for non-empty matches and allow-lists
\* without an empty entry).
C4_HybridKeepsBlacklist ==
    (phase = "hybrid" /\ <<>> \notin whitelist) =>
        \A i \in 1..Len(entities) :
            (entities[i].source = "blacklist" /\ entities[i].text # <<>>) =>
                \E k \in 1..Len(response.entities) : response.entities[k] = entities[i]

-----------------------------------------------------------------------------
(* C5 *)

\* C5: every block-list entity reported by find-piis has whitelisted =
\* FALSE, and every resolved entity is reported, for every allow-list.
C5_BlacklistNeverWhitelisted ==
    phase = "find_piis" =>
        /\ Len(response.entities) = Len(entities)
        /\ \A i \in 1..Len(response.entities) :
              /\ response.entities[i].start = entities[i].start
              /\ response.entities[i].end = entities[i].end
              /\ response.entities[i].source = entities[i].source
              /\ response.entities[i].source = "blacklist" =>
                    response.entities[i].whitelisted = FALSE

\* A block-list entity whose text the smart allow-list matching accepts
\* (here by word or substring) is reported with whitelisted = FALSE.
C5_Witness ==
    /\ phase = "find_piis"
    /\ <<>> \notin whitelist
    /\ \E i \in 1..Len(response.entities) :
          /\ response.entities[i].source = "blacklist"
          /\ response.entities[i].text # <<>>
          /\ response.entities[i].text \notin whitelist
          /\ is_whitelisted(response.entities[i].text, whitelist)
          /\ response.entities[i].whitelisted = FALSE

-----------------------------------------------------------------------------
(* C6 *)

\* C6: an entity that is not block-list-sourced and that the smart
\* allow-list matching marks as whitelisted is left unchanged by the
\* anonymize operation: no replacement record is produced for its span
\* (allow-lists with an empty entry, which matches everything, left aside).
C6_WhitelistedLeftUnchanged ==
    (phase = "anonymize" /\ <<>> \notin whitelist) =>
        \A i \in 1..Len(entities) :
            (entities[i].source # "blacklist"
                /\ is_whitelisted(entities[i].text, whitelist)) =>
                    ~\E k \in 1..Len(response.replacements) :
                        /\ response.replacements[k].start = entities[i].start
                        /\ response.replacements[k].end = entities[i].end

-----------------------------------------------------------------------------
(* C7 *)

ExactMatch(t, wl) == \E w \in wl : w = t

\* [i, j) is a maximal run of non-whitespace characters of t
IsWord(t, i, j) ==
    /\ i < j
    /\ \A k \in (i + 1)..j : ~IsSpace(t[k])
    /\ i = 0 \/ IsSpace(t[i])
    /\ j = Len(t) \/ IsSpace(t[j + 1])

WordMatch(t, wl) ==
    \E i, j \in 0..Len(t) : IsWord(t, i, j) /\ Slice(t, i, j) \in wl

SubstringMatch(t, wl) ==
    \E w \in wl : \E i \in 0..Len(t) :
        i + Len(w) <= Len(t) /\ Slice(t, i, i + Len(w)) = w

\* C7: is_whitelisted is true exactly when the entity text equals an
\* allow-list entry, or one of its whitespace-separated words equals an
\* entry, or an entry is a substring of it; comparison is case-sensitive.
C7_SmartWhitelistMatch ==
    phase = "matched" =>
        (wl_result <=> (\/ ExactMatch(entity_text, whitelist)
                        \/ WordMatch(entity_text, whitelist)
                        \/ SubstringMatch(entity_text, whitelist)))

C7_Witness ==
    /\ phase = "matched"
    /\ wl_result = TRUE
    /\ ~ExactMatch(entity_text, whitelist)
    /\ WordMatch(entity_text, whitelist)
    /\ \E w \in whitelist : ~StrContains(entity_text, w)

-----------------------------------------------------------------------------
(* C8 *)

BothShifted ==
    /\ phase = "both_shifted"
    /\ shifted.outcome = "shifted"
    /\ shifted2.outcome = "shifted"

\* The date a date string denotes, and the date shift_date formats for it
DateOf(s) == parse_date(s).date

ShiftedDateOf(s) == apply_shift(DateOf(s), shift_months, shift_days).date

DaysBetween(d1, d2) == ToOrdinal(d2) - ToOrdinal(d1)

TargetMonth(date, months) ==
    LET t == 12 * date.year + (date.month - 1) + months
    IN  [year |-> t \div 12, month |-> (t % 12) + 1]

DayExistsInTarget(date, months) ==
    LET t == TargetMonth(date, months)
    IN  date.day <= DaysInMonth(t.year, t.month)

SameMonthNoClamp(d1, d2, months) ==
    /\ d1.year = d2.year /\ d1.month = d2.month
    /\ DayExistsInTarget(d1, months)
    /\ DayExistsInTarget(d2, months)

-----------------------------------------------------------------------------
(* C9 *)

\* The separator _parse_date splits a parseable string on
UsedSeparator(s) ==
    IF HasChar(s, ".") /\ Len(split_on(s, ".")) = 3 THEN "."
    ELSE IF HasChar(s, "/") /\ Len(split_on(s, "/")) = 3 THEN "/"
    ELSE "-"

YearFirst(s, sep) == Len(split_on(s, sep)[1]) = 4

SameFormatFamily(in, out) ==
    LET sep == UsedSeparator(in)
    IN  /\ Len(split_on(out, sep)) = 3
        /\ \A other \in Separators \ {sep} : ~HasChar(out, other)
        /\ YearFirst(in, sep) <=> YearFirst(out, sep)
        /\ (sep = "." /\ Len(split_on(in, sep)[3]) \in {2, 4}) =>
              Len(split_on(out, sep)[3]) = Len(split_on(in, sep)[3])

\* C9: whenever shift_date parses its input, the returned string has the
\* input's separator, the input's field order (day-first or year-first) and,
\* for "."-separated dates, the input's year width.
C9_FormatFamilyPreserved ==
    (phase # "dates" /\ shifted.outcome = "shifted") =>
        SameFormatFamily(date_str, shifted.value)

-----------------------------------------------------------------------------
(* C10 *)

\* A complete date in one of the layouts _format_date writes
WholeDate(s) ==
    \E sep \in Separators :
        LET parts == split_on(s, sep)
        IN  /\ Len(parts) = 3
            /\ \A i \in 1..3 : AllDigits(parts[i])
            /\ \/ Len(parts[1]) = 2 /\ Len(parts[2]) = 2 /\ Len(parts[3]) \in {2, 4}
               \/ Len(parts[1]) = 4 /\ Len(parts[2]) = 2 /\ Len(parts[3]) = 2

WrongArity(s) == \A sep \in Separators : Len(split_on(s, sep)) # 3

\* C10: shift_date never raises; when the input cannot be parsed or the
\* shifted date cannot be represented it returns the input unchanged, and
\* otherwise a complete date, never a partially transformed string.
C10_ShiftDateNeverRaises ==
    phase # "dates" =>
        /\ shifted.kind = "returned"
        /\ shifted.outcome # "shifted" => shifted.value = date_str
        /\ shifted.outcome = "shifted" => WholeDate(shifted.value)
        /\ WrongArity(date_str) => shifted.value = date_str

C10_Witness ==
    /\ phase = "first_shifted"
    /\ shifted.outcome = "shift_raised"
    /\ shifted.kind = "returned"
    /\ shifted.value = date_str
    /\ shift_days > 0

-----------------------------------------------------------------------------
(* C11 *)

\* The entities of the call that pass the exclusion filter
Kept == SelectSeq(entities, LAMBDA e : e.text \notin whitelist)

AllInBounds == \A i \in 1..Len(entities) :
    InBounds(text, entities[i].start, entities[i].end)

NonOverlapping == \A i, j \in 1..Len(entities) :
    i < j => (entities[i].end <= entities[j].start \/ entities[j].end <= entities[i].start)

KeptStartingAt(pos) == {i \in 1..Len(Kept) : Kept[i].start = pos}

RecordStartingAt(pos) ==
    CHOOSE r \in Range(response.replacements) : r.start = pos

\* The original text read left to right, every kept span replaced by the
\* replacement recorded for it and every other character copied.
RECURSIVE SplicedFrom(_)
SplicedFrom(pos) ==
    IF pos >= Len(text) THEN <<>>
    ELSE IF KeptStartingAt(pos) # {}
         THEN LET e == Kept[CHOOSE i \in KeptStartingAt(pos) : TRUE]
              IN  RecordStartingAt(pos).replacement \o SplicedFrom(e.end)
         ELSE <<text[pos + 1]>> \o SplicedFrom(pos + 1)

\* C11: for pairwise non-overlapping, in-bounds entities the anonymized text
\* is the original text with the span of every entity that passed the
\* exclusion filter replaced by its replacement and every other character
\* kept in place; with no entities it is the original text.
C11_SpliceIsExact ==
    (phase = "anonymized" /\ AllInBounds /\ NonOverlapping) =>
        /\ response.kind = "anonymize"
        /\ \A i \in 1..Len(Kept) :
              \E r \in Range(response.replacements) : r.start = Kept[i].start
        /\ response.anonymized_text = SplicedFrom(0)
        /\ (entities = <<>> => response.anonymized_text = text)

\* Two kept entities given left to right, a character between or beside
\* them, and replacements longer than the spans they replace.
C11_Witness ==
    /\ phase = "anonymized" /\ AllInBounds /\ NonOverlapping
    /\ Len(Kept) = 2
    /\ Kept[1].start < Kept[2].start
    /\ Len(text) > (Kept[1].end - Kept[1].start) + (Kept[2].end - Kept[2].start)
    /\ Len(response.anonymized_text) > Len(text)
    /\ response.anonymized_text = SplicedFrom(0)

-----------------------------------------------------------------------------
(* C12 *)

Malformed(e) ==
    \/ e.start < 0 \/ e.start > Len(text)
    \/ e.end < 0 \/ e.end > Len(text)
    \/ e.start >= e.end

\* C12: a call of anonymize_text with an entity with malformed bounds
\* (start or end outside [0, len(text)], or start >= end) that passes the
\* exclusion filter ends in an error, never in an anonymized output.
C12_MalformedBoundsRejected ==
    (phase = "anonymized" /\ \E i \in 1..Len(Kept) : Malformed(Kept[i])) =>
        response.kind = "raise"

-----------------------------------------------------------------------------
(* C13 *)

FailClosedCase ==
    \/ default_mech.type \notin KnownTypes
    \/ /\ default_mech.type = "shift"
       /\ (entity_arg = NoEntity \/ entity_arg.label # "DATE")

\* C13: for a mechanism of an unknown type, and for a shift mechanism on an
\* entity whose label is not DATE, the replacement is exactly "[REDACTED]"
\* and so is not the entity's text.
C13_FailClosedDispatch ==
    (phase = "applied" /\ FailClosedCase) =>
        /\ response.kind = "replacement"
        /\ response.value = Redacted
        /\ (entity_text # Redacted => response.value # entity_text)

C13_Witness ==
    /\ phase = "applied"
    /\ default_mech.type = "shift"
    /\ entity_arg # NoEntity /\ entity_arg.label = "PER"
    /\ entity_text # <<>>
    /\ response.kind = "replacement" /\ response.value = Redacted

-----------------------------------------------------------------------------
(* C14 *)

SelectedFor(label) == IF label \in DOMAIN by_tag THEN by_tag[label] ELSE default_mech

\* C14: every replacement record is made with the mechanism mechanisms_by_tag
\* holds for the entity's label, or with the default mechanism when the
\* label is no key of it, and records the type of that mechanism.
C14_MechanismByLabel ==
    (phase = "anonymized" /\ response.kind = "anonymize") =>
        \A i \in 1..Len(response.replacements) :
            LET r == response.replacements[i]
            IN  /\ r.mechanism = SelectedFor(r.label).type
                /\ r.replacement =
                      apply_mechanism(r.original, SelectedFor(r.label), [label |-> r.label])

\* One call rewrites an entity by the label's mechanism and another by the
\* default mechanism, the two being of different types.
C14_Witness ==
    /\ phase = "anonymized" /\ response.kind = "anonymize"
    /\ AllInBounds /\ NonOverlapping
    /\ \E i, j \in 1..Len(response.replacements) :
          LET r == response.replacements[i]
              q == response.replacements[j]
          IN  /\ r.label \in DOMAIN by_tag
              /\ q.label \notin DOMAIN by_tag
              /\ r.mechanism = by_tag[r.label].type
              /\ q.mechanism = default_mech.type
              /\ r.mechanism # q.mechanism

-----------------------------------------------------------------------------
(* C16 *)

HashPrefix == <<"[", "H", "A", "S", "H", ":">>

IsHashToken(t) ==
    /\ Len(t) = Len(HashPrefix) + 8 + 1
    /\ SubSeq(t, 1, Len(HashPrefix)) = HashPrefix
    /\ \A k \in (Len(HashPrefix) + 1)..(Len(HashPrefix) + 8) : t[k] \in Range(HexDigits)
    /\ t[Len(t)] = "]"

HashRecords == {r \in Range(response.replacements) : r.mechanism = "hash"}

\* C16: two entities with the same text rewritten by the hash mechanism get
\* the same token whatever their positions and labels, and every token is
\* "[HASH:" followed by 8 hexadecimal characters and "]".
C16_HashDeterministic ==
    (phase = "anonymized" /\ response.kind = "anonymize") =>
        /\ \A r \in HashRecords : IsHashToken(r.replacement)
        /\ \A r, q \in HashRecords : r.original = q.original => r.replacement = q.replacement

\* The same text hashed at two positions under two labels
C16_Witness ==
    /\ phase = "anonymized" /\ response.kind = "anonymize"
    /\ AllInBounds /\ NonOverlapping
    /\ \E r, q \in HashRecords :
          /\ r.original = q.original /\ r.start # q.start /\ r.label # q.label
          /\ r.replacement = q.replacement

-----------------------------------------------------------------------------
(* C15 *)

RecordOf(e) ==
    [original |-> e.text, replacement |-> Redacted, start |-> e.start,
     end |-> e.end, label |-> e.label, mechanism |-> "redact"]

Occurrences(seq, x) == Cardinality({i \in 1..Len(seq) : seq[i] = x})

\* One record per entity that passed the exclusion filter, carrying its
\* text, offsets, label and replacement, and no other record.
OneRecordPerKeptEntity ==
    /\ Len(response.replacements) = Len(Kept)
    /\ \A i \in 1..Len(Kept) :
          Occurrences(response.replacements, RecordOf(Kept[i]))
              = Cardinality({j \in 1..Len(Kept) : RecordOf(Kept[j]) = RecordOf(Kept[i])})
    /\ \A i \in 1..Len(response.replacements) :
          response.replacements[i].original \notin whitelist

StrictlyDescendingStart(rs) ==
    \A i, j \in 1..Len(rs) : i < j => rs[i].start > rs[j].start

\* C15: one record per entity that passed the exclusion filter, none for an
\* excluded one, in strictly descending order of start.
C15_RecordsStrictlyDescending ==
    phase = "anonymize" =>
        /\ OneRecordPerKeptEntity
        /\ StrictlyDescendingStart(response.replacements)

-----------------------------------------------------------------------------
(* C20 *)

Overlaps(a, b) == ~(a.end <= b.start \/ b.end <= a.start)

IsBlacklist(e) == e.source = "blacklist"

\* C20: every block-list candidate is in the output or overlaps a block-list
\* entity of the output, and no other entity of the output overlaps a
\* block-list entity of the output.
C20_BlacklistPriority ==
    phase = "deduplicated" =>
        /\ \A i \in 1..Len(candidates) :
              IsBlacklist(candidates[i]) =>
                  \/ candidates[i] \in Range(deduplicated)
                  \/ \E d \in Range(deduplicated) :
                        IsBlacklist(d) /\ Overlaps(candidates[i], d)
        /\ \A d1, d2 \in Range(deduplicated) :
              (IsBlacklist(d1) /\ ~IsBlacklist(d2)) => ~Overlaps(d1, d2)

\* A block-list candidate is kept although a longer candidate of another
\* source starts before it and overlaps it.
C20_Witness ==
    /\ phase = "deduplicated"
    /\ \E i, j \in 1..Len(candidates) :
          /\ IsBlacklist(candidates[i]) /\ ~IsBlacklist(candidates[j])
          /\ candidates[j].start < candidates[i].start
          /\ candidates[j].end - candidates[j].start > candidates[i].end - candidates[i].start
          /\ Overlaps(candidates[i], candidates[j])
          /\ candidates[i].start < candidates[i].end
          /\ candidates[i] \in Range(deduplicated)
          /\ candidates[j] \notin Range(deduplicated)

-----------------------------------------------------------------------------
(* C17 *)

FromListOrPattern(e) == e.source \in {"blacklist", "regex"}

CarriesSourceText(e) ==
    /\ 0 <= e.start /\ e.start <= e.end /\ e.end <= Len(text)
    /\ e.text = SubSeq(text, e.start + 1, e.end)

\* C17: every entity of the block-list matcher and of the pattern detector,
\* before and after the resolver, has text[start:end] = entity.text for the
\* text that was scanned.
C17_EntityTextIsSourceSlice ==
    phase = "scanned" =>
        /\ \A i \in 1..Len(candidates) :
              FromListOrPattern(candidates[i]) => CarriesSourceText(candidates[i])
        /\ \A i \in 1..Len(entities) :
              FromListOrPattern(entities[i]) => CarriesSourceText(entities[i])

\* The resolver accepted a block-list match written in another case than
\* the block-list term, and a postal code.
C17_Witness ==
    /\ phase = "scanned"
    /\ blacklist = {<<"n">>}
    /\ \E i, j \in 1..Len(entities) :
          /\ entities[i].source = "blacklist" /\ entities[i].text = <<"N">>
          /\ entities[j].source = "regex" /\ entities[j].label = "ZIPCODE"

-----------------------------------------------------------------------------
(* C18 *)

BlacklistUnchanged ==
    blacklist = response.before.blacklist /\ blacklist_others = response.before.others

SizeBefore == Cardinality(response.before.blacklist) + response.before.others

\* C18: add_entry fails (409) exactly for a term already in the block-list
\* or a block-list of 10000 entries, remove_entry fails (404) exactly for a
\* term not in it, set_all fails exactly for more than 10000 terms; a
\* failed call leaves the block-list as it was, every other call returns
\* True and adds the term, removes it, or replaces the whole block-list.
C18_BlacklistMutations ==
    /\ response.kind = "add_blacklist" =>
          IF response.input \in response.before.blacklist \/ SizeBefore >= 10000
          THEN ~response.success /\ response.status = 409 /\ BlacklistUnchanged
          ELSE /\ response.success /\ response.status = 201
               /\ blacklist = response.before.blacklist \cup {response.input}
               /\ blacklist_others = response.before.others
    /\ response.kind = "remove_blacklist" =>
          IF response.input \notin response.before.blacklist
          THEN ~response.success /\ response.status = 404 /\ BlacklistUnchanged
          ELSE /\ response.success /\ response.status = 200
               /\ blacklist = response.before.blacklist \ {response.input}
               /\ blacklist_others = response.before.others
    /\ response.kind = "set_blacklist" =>
          IF Len(response.input.terms) + response.input.more > 10000
          THEN ~response.success /\ BlacklistUnchanged
          ELSE /\ response.success
               /\ blacklist = Range(response.input.terms)
               /\ blacklist_others = response.input.more

\* An addition is refused because the block-list holds 10000 entries, the
\* term not being one of them.
C18_Witness ==
    /\ response.kind = "add_blacklist"
    /\ response.input \notin response.before.blacklist
    /\ SizeBefore = 10000
    /\ ~response.success /\ response.status = 409
    /\ BlacklistUnchanged

-----------------------------------------------------------------------------
(* C19 *)

WhitelistUnchanged ==
    whitelist_file = response.before.file /\ whitelist_others = response.before.others

\* C19: adding an entry that is already in the allow-list is answered with
\* 409, removing an entry that is not in it with 404, and in both cases the
\* allow-list is unchanged.
C19_WhitelistNoOpsRejected ==
    /\ (response.kind = "add_whitelist"
          /\ response.input \in Range(response.before.file))
            => (response.status = 409 /\ WhitelistUnchanged)
    /\ (response.kind = "remove_whitelist"
          /\ response.input \notin Range(response.before.file))
            => (response.status = 404 /\ WhitelistUnchanged)

-----------------------------------------------------------------------------
(* C21 *)

SpanLength(e) == e.end - e.start

Dropped(c) == c \in Range(candidates) /\ c \notin Range(deduplicated)

NoBlacklistCandidate == \A i \in 1..Len(candidates) : ~IsBlacklist(candidates[i])

\* C21: with no block-list candidate, a candidate is never dropped while an
\* overlapping candidate with a strictly shorter span is kept.
C21_WidestWins ==
    (phase = "deduplicated" /\ NoBlacklistCandidate) =>
        \A b \in Range(candidates) : \A a \in Range(deduplicated) :
            (Dropped(b) /\ Overlaps(a, b)) => ~(SpanLength(a) < SpanLength(b))

-----------------------------------------------------------------------------
(* C22 *)

SameProvenance(a, b) == IsBlacklist(a) <=> IsBlacklist(b)

\* C22 as stated: when exactly one of two candidates with the same start
\* is in the output, it is the block-list one if exactly one of them is
\* from the block-list, and otherwise the longer one.
C22_SameStartPreference ==
    phase = "deduplicated" =>
        \A a \in Range(deduplicated) : \A b \in Range(candidates) :
            (Dropped(b) /\ a.start = b.start) =>
                IF SameProvenance(a, b)
                THEN SpanLength(a) >= SpanLength(b)
                ELSE IsBlacklist(a)

\* C22 amended: when exactly one of two overlapping candidates with the
\* same start is in the output, it is the block-list one if exactly one of
\* them is from the block-list; if they have the same provenance it is the
\* longer one, unless neither is from the block-list and the longer one
\* overlaps a block-list entity of the output.
C22_SameStartPreferenceUnlessBlacklisted ==
    phase = "deduplicated" =>
        \A a \in Range(deduplicated) : \A b \in Range(candidates) :
            (Dropped(b) /\ a.start = b.start /\ Overlaps(a, b)) =>
                IF SameProvenance(a, b)
                THEN \/ SpanLength(a) >= SpanLength(b)
                     \/ /\ ~IsBlacklist(a) /\ ~IsBlacklist(b)
                        /\ \E c \in Range(deduplicated) :
                              IsBlacklist(c) /\ Overlaps(c, b) /\ ~Overlaps(c, a)
                ELSE IsBlacklist(a)

\* Same start: a block-list candidate is kept and a longer candidate of
\* another source dropped, and in another pair of one provenance the longer
\* is kept.
C22_Witness ==
    /\ phase = "deduplicated"
    /\ \E a \in Range(deduplicated) : \E b \in Range(candidates) :
          /\ Dropped(b) /\ a.start = b.start
          /\ IsBlacklist(a) /\ ~IsBlacklist(b)
          /\ SpanLength(a) < SpanLength(b) /\ a.start < a.end
    /\ \E a \in Range(deduplicated) : \E b \in Range(candidates) :
          /\ Dropped(b) /\ a.start = b.start /\ Overlaps(a, b)
          /\ SameProvenance(a, b) /\ SpanLength(a) > SpanLength(b)

-----------------------------------------------------------------------------
(* C28 *)

\* C28: every entity of the resolver's output is one of the candidates, as
\* it came in, and every candidate that is not in the output overlaps an
\* entity of the output.
C28_MaximalSubset ==
    phase = "deduplicated" =>
        /\ \A d \in Range(deduplicated) : d \in Range(candidates)
        /\ \A c \in Range(candidates) :
              Dropped(c) => \E d \in Range(deduplicated) : Overlaps(c, d)

\* One candidate is dropped, and a candidate that touches a kept one
\* without overlapping it is kept.
C28_Witness ==
    /\ phase = "deduplicated"
    /\ \E c \in Range(candidates) : Dropped(c) /\ c.start < c.end
    /\ \E d1, d2 \in Range(deduplicated) : d1.end = d2.start /\ d1.start < d1.end
                                            /\ d2.start < d2.end

-----------------------------------------------------------------------------
(* C23 *)

FirstShifted == phase = "first_shifted" /\ shifted.outcome = "shifted"

\* C23: when only months are shifted, the month of the shifted date lies
\* in 1..12, 12 * year + month has grown by exactly shift_months, and the
\* day of the month is unchanged whenever it exists in the month reached.
C23_MonthShiftNormalises ==
    (FirstShifted /\ shift_days = 0) =>
        LET d == DateOf(date_str)
            r == ShiftedDateOf(date_str)
        IN  /\ 1 <= r.month /\ r.month <= 12
            /\ 12 * r.year + r.month = 12 * d.year + d.month + shift_months
            /\ (d.day <= DaysInMonth(r.year, r.month) => r.day = d.day)

\* 15.03.2024 shifted by 28 months is 15.07.2026
C23_Witness ==
    /\ FirstShifted /\ shift_days = 0 /\ shift_months = 28
    /\ date_str = <<"1", "5", ".", "0", "3", ".", "2", "0", "2", "4">>
    /\ shifted.value = <<"1", "5", ".", "0", "7", ".", "2", "0", "2", "6">>

-----------------------------------------------------------------------------
(* C24 *)

LastValidDay(year, month) ==
    IF month \in {4, 6, 9, 11} THEN 30
    ELSE IF month = 2
         THEN (IF year % 4 = 0 /\ (year % 100 # 0 \/ year % 400 = 0) THEN 29 ELSE 28)
    ELSE 31

IsCalendarDate(date) ==
    /\ 1 <= date.month /\ date.month <= 12
    /\ 1 <= date.day /\ date.day <= LastValidDay(date.year, date.month)

\* C24: when the day of the month does not exist in the month a month
\* shift reaches, the day of the result is the last day of that month (30,
\* or 28 / 29 for February by the Gregorian rule); every shifted date is a
\* calendar date.
C24_ClampToLastDay ==
    FirstShifted =>
        LET d == DateOf(date_str)
            r == ShiftedDateOf(date_str)
            t == TargetMonth(d, shift_months)
        IN  /\ IsCalendarDate(r)
            /\ (shift_days = 0 /\ d.day > LastValidDay(t.year, t.month)) =>
                  r = Date(t.year, t.month, LastValidDay(t.year, t.month))

\* 31.01.2024 shifted by one month is 29.02.2024
C24_Witness ==
    /\ FirstShifted /\ shift_days = 0 /\ shift_months = 1
    /\ date_str = <<"3", "1", ".", "0", "1", ".", "2", "0", "2", "4">>
    /\ shifted.value = <<"2", "9", ".", "0", "2", ".", "2", "0", "2", "4">>

-----------------------------------------------------------------------------
(* C30 *)

NotLater(d1, d2) == ToOrdinal(d1) <= ToOrdinal(d2)

\* C30: when both shifts succeed, a date that is not later than the other
\* is not later than it after the shift either.
C30_OrderPreserved ==
    BothShifted =>
        /\ NotLater(DateOf(date_str), DateOf(date_str2))
              => NotLater(ShiftedDateOf(date_str), ShiftedDateOf(date_str2))
        /\ NotLater(DateOf(date_str2), DateOf(date_str))
              => NotLater(ShiftedDateOf(date_str2), ShiftedDateOf(date_str))

\* 30.01.2024 and 31.01.2024 shifted by one month: both become 29.02.2024
C30_Witness ==
    /\ BothShifted /\ shift_months = 1 /\ shift_days = 0
    /\ DaysBetween(DateOf(date_str), DateOf(date_str2)) = 1
    /\ ShiftedDateOf(date_str) = ShiftedDateOf(date_str2)
    /\ shifted.value = shifted2.value

-----------------------------------------------------------------------------
(* C25 *)

\* C25: the partial mechanism turns a text of length n >= 3 into its first
\* character, n - 2 asterisks and its last character, and a text of length
\* 1 or 2 into its first character and one asterisk.
C25_PartialMasksMiddle ==
    (phase = "applied" /\ default_mech.type = "partial" /\ entity_text # <<>>) =>
        /\ response.kind = "replacement"
        /\ LET n == Len(entity_text)
               v == response.value
           IN  IF n >= 3
               THEN /\ Len(v) = n
                    /\ v[1] = entity_text[1] /\ v[n] = entity_text[n]
                    /\ \A i \in 2..(n - 1) : v[i] = "*"
               ELSE v = <<entity_text[1], "*">>

\* A text of two different characters: the second one is masked
C25_Witness ==
    /\ phase = "applied" /\ default_mech.type = "partial"
    /\ entity_text = <<"N", "n">>
    /\ response.kind = "replacement" /\ response.value = <<"N", "*">>

-----------------------------------------------------------------------------
(* C26 *)

ProperSpan(e) == 0 <= e.start /\ e.start < e.end /\ e.end <= Len(text)

\* C26: every entity of the block-list matcher and of the pattern detector
\* has 0 <= start < end <= len(text), in the list handed to the resolver
\* and in the list the resolver returns.
C26_NoZeroLengthEntity ==
    phase = "scanned" =>
        /\ \A i \in 1..Len(candidates) : ProperSpan(candidates[i])
        /\ \A i \in 1..Len(entities) : ProperSpan(entities[i])

-----------------------------------------------------------------------------
(* C27 *)

\* Five digits at offset i with no letter or digit next to them (a space is
\* the only other character of the texts scanned)
StandaloneRunAt(i) ==
    /\ i + 5 <= Len(text)
    /\ \A k \in 1..5 : text[i + k] \in Range(Digits)
    /\ (i = 0 \/ text[i] = " ")
    /\ (i + 5 = Len(text) \/ text[i + 6] = " ")

ConstantDifference(d) ==
    \A k \in 1..3 :
        DigitVal(d[k + 1]) - DigitVal(d[k]) = DigitVal(d[k + 2]) - DigitVal(d[k + 1])

ReportedAt(i) ==
    \E j \in 1..Len(candidates) :
        candidates[j] = Entity(SubSeq(text, i + 1, i + 5), i, i + 5, "ZIPCODE", "regex")

\* C27: a standalone sequence of five digits is reported as a ZIPCODE
\* entity exactly if it is not 00000 and its four differences of successive
\* digits are not all equal, and nothing else is reported as a ZIPCODE.
C27_ZipcodeIffNotSequential ==
    phase = "scanned" =>
        /\ \A i \in 0..Len(text) :
              StandaloneRunAt(i) =>
                  (ReportedAt(i) <=>
                      LET d == SubSeq(text, i + 1, i + 5)
                      IN  d # <<"0", "0", "0", "0", "0">> /\ ~ConstantDifference(d))
        /\ \A j \in 1..Len(candidates) :
              candidates[j].label = "ZIPCODE" =>
                  StandaloneRunAt(candidates[j].start) /\ ReportedAt(candidates[j].start)

\* 10115 is reported
C27_Witness ==
    /\ phase = "scanned"
    /\ text = <<"1", "0", "1", "1", "5">>
    /\ ReportedAt(0) /\ Len(candidates) = 1

-----------------------------------------------------------------------------
(* C29 *)

\* C29: in a result of anonymize_text, entities_found, entities_anonymized
\* and the length of replacements are all the number of entities whose text
\* is not in the allow-list.
C29_CountsAgree ==
    (phase = "anonymized" /\ response.kind = "anonymize") =>
        /\ response.entities_found = Len(Kept)
        /\ response.entities_anonymized = Len(Kept)
        /\ Len(response.replacements) = Len(Kept)
        /\ Len(Kept) = Cardinality({i \in 1..Len(entities) : entities[i].text \notin whitelist})

\* Two entities, one of them excluded by the allow-list
C29_Witness ==
    /\ phase = "anonymized" /\ response.kind = "anonymize"
    /\ AllInBounds /\ NonOverlapping
    /\ Len(entities) = 2
    /\ entities[1].text \in whitelist /\ entities[2].text \notin whitelist
    /\ response.entities_found = 1 /\ Len(response.replacements) = 1

=============================================================================
